---- MODULE Spec2Model ----
(***************************************************************************)
(* Retrieval pipeline of streamlit-qdrant-app: the chunker and the         *)
(* ingestion task of src/processor/main.py, and the multi-collection       *)
(* search of src/app_qdrant_api.py.                                        *)
(***************************************************************************)
EXTENDS Integers, Sequences, FiniteSets, TLC

(***************************************************************************)
(* Bounds of the model.                                                    *)
(***************************************************************************)
\* longest enumerated text handed to the chunker
MaxLen == 4
\* largest enumerated chunk_size
MaxChunkSize == 3
\* largest enumerated overlap (reaches and passes chunk_size)
MaxOverlap == 3
\* iterations the window loop may run beyond len(text) before the model stops it
MaxSpin == 2
\* length of the long document of the ingestion scenario
ScenarioLen == 2500
\* fresh point ids (uuid4 draws) in one run of the model
MaxUuid == 4
\* largest enumerated limit of a search
MaxLimit == 2
\* similarity scores are 1..MaxScore
MaxScore == 2
\* uploads the processor API accepts in one run of the model
MaxUploads == 2

(***************************************************************************)
(* Program constants.                                                      *)
(***************************************************************************)
\* chunk_text(self, text, chunk_size: int = 1000, ...)
DEFAULT_CHUNK_SIZE == 1000
\* chunk_text(self, text, ..., overlap: int = 200)
DEFAULT_OVERLAP == 200

VARIABLES
    \* ---- chunker and ingestion task (src/processor/main.py)
    caller,      \* "chunk_text": a direct call; "process_pdf": the background task
    text,        \* the text argument / the text extracted from the PDF
    chunk_size,
    overlap,
    chunks,      \* the local list `chunks`
    start,       \* the local `start`
    pc,          \* position in chunk_text / process_pdf
    outcome,     \* how the call ended
    document_id, \* process_pdf's document_id argument
    filename,    \* process_pdf's filename argument
    points       \* the points held by the vector store, each with its collection

chunkLocals == <<caller, text, chunk_size, overlap, chunks, start, pc, outcome,
                 document_id, filename>>

chunkVars == <<chunkLocals, points>>

VARIABLES
    \* ---- the processor API and the vector store (src/processor/main.py)
    reachable,   \* whether the vector store answers requests
    tasks,       \* background tasks added by /upload and not yet started
    next_doc,    \* stands for uuid.uuid4(): the next fresh document id
    last_op,     \* the last operation served, its answer, and whether the store was reachable
    deleted      \* history: the document ids DELETE /documents/{id} has answered 200 for

procVars == <<reachable, tasks, next_doc, last_op, deleted>>

VARIABLES
    \* ---- search_qdrant_api and the chat handler (src/app_qdrant_api.py)
    limit,           \* the limit argument
    spc,             \* position in search_qdrant_api / the chat handler
    collections,     \* the local `collections`: names from get_all_collections()
    idx,             \* the next collection of `for collection in collections`
    responses,       \* what the store answered for each collection searched
    all_results,     \* the local `all_results`
    search_results,  \* the value search_qdrant_api returned
    banners,         \* st.error / st.warning / st.info messages shown
    full_response    \* the assistant message of the chat handler

searchVars == <<limit, spc, collections, idx, responses, all_results,
                search_results, banners, full_response>>

VARIABLES
    \* ---- one session of the Streamlit script (src/app_qdrant_api.py)
    rpc,           \* position in the running script; "idle" between reruns
    uploaded_file, \* the file held by st.file_uploader, or NoFile
    clicked,       \* the collection whose delete button started this rerun, or NoClick
    colls,         \* the collections of the vector store: name, vector size, distance
    next_uuid,     \* stands for uuid.uuid4(): the next fresh point id
    listed,        \* the stored documents the sidebar shows in this run of the script
    shown,         \* the filenames written next to them
    \* ---- session and process state of src/app_qdrant_only.py
    document_indexes,  \* the keys of st.session_state.document_indexes
    cached_client      \* what @st.cache_resource holds for get_qdrant_client

sessionVars == <<document_indexes, cached_client>>

appVars == <<rpc, uploaded_file, clicked, colls, next_uuid, listed, shown, sessionVars>>

vars == <<chunkVars, procVars, searchVars, appVars>>

Min(a, b) == IF a < b THEN a ELSE b
Max(a, b) == IF a > b THEN a ELSE b

(***************************************************************************)
(* Python text: sequences of one-character strings.                        *)
(***************************************************************************)
Chars == {"a", "b", " "}

RECURSIVE SeqsUpTo(_, _)
SeqsUpTo(S, n) ==
    IF n = 0 THEN {<<>>}
    ELSE LET shorter == SeqsUpTo(S, n - 1)
         IN  shorter \cup {Append(s, c) : s \in {t \in shorter : Len(t) = n - 1}, c \in S}

Texts == SeqsUpTo(Chars, MaxLen)

ScenarioText == [i \in 1..ScenarioLen |-> IF i % 2 = 0 THEN "a" ELSE "b"]

\* a slice bound as Python normalises it: negative counts from the end,
\* everything is clamped into 0..n
PyIndex(i, n) == IF i < 0 THEN Max(i + n, 0) ELSE Min(i, n)

\* s[a:b]
PySlice(s, a, b) ==
    LET lo == PyIndex(a, Len(s))
        hi == PyIndex(b, Len(s))
    IN  IF lo < hi THEN SubSeq(s, lo + 1, hi) ELSE <<>>

IsSpace(c) == c = " "

\* str.strip(): leading and trailing whitespace removed
RECURSIVE LStrip(_)
LStrip(s) == IF s # <<>> /\ IsSpace(Head(s)) THEN LStrip(Tail(s)) ELSE s

RECURSIVE RStrip(_)
RStrip(s) ==
    IF s # <<>> /\ IsSpace(s[Len(s)]) THEN RStrip(SubSeq(s, 1, Len(s) - 1)) ELSE s

Strip(s) == RStrip(LStrip(s))

(***************************************************************************)
(* PDFProcessor.chunk_text, one action per step of the function.           *)
(***************************************************************************)
\* start = end - overlap, with end = start + chunk_size
NextStartOffByOne(s, size, ov) == s + size - ov + 1
NextStart(s, size, ov) == (s + size) - ov

\* if len(text) <= chunk_size: return [text]
ShortTextChunks(t) == <<t>>

\* the point id and payload built for chunk i (0-based) of a document
MakePoint(doc, name, i, chunk, total) ==
    [id |-> <<doc, i>>,
     document_id |-> doc,
     filename |-> name,
     chunk_index |-> i,
     text |-> chunk,
     total_chunks |-> total]

\* COLLECTION_NAME = os.getenv("COLLECTION_NAME", "pdf_documents")
COLLECTION_NAME == "pdf_documents"

\* VECTOR_SIZE = 384
VECTOR_SIZE == 384

\* the collection a create request makes: VectorParams(size, Distance.COSINE),
\* {"vectors": {"size": vector_size, "distance": "Cosine"}}
CreatedCollectionEuclid(name, size) == [name |-> name, size |-> size, distance |-> "Euclid"]
CreatedCollection(name, size) == [name |-> name, size |-> size, distance |-> "Cosine"]

\* ensure_collection_exists on an answering store: create the collection
\* unless one of that name is there
EnsureCollection(cs, name, size) ==
    IF \E c \in cs : c.name = name
    THEN cs
    ELSE cs \cup {CreatedCollection(name, size)}

\* qdrant upsert into collection c: insert or overwrite by id
Upsert(stored, c, new) ==
    LET placed == {[collection |-> c] @@ q : q \in new}
    IN  {p \in stored : \A q \in placed : ~(q.collection = p.collection /\ q.id = p.id)}
            \cup placed

\* chunk_text(text, chunk_size, overlap) is entered: the short-text return
ChunkEnter ==
    /\ pc = "chunk_text"
    /\ IF Len(text) <= chunk_size
       THEN /\ chunks' = ShortTextChunks(text)
            /\ pc' = IF caller = "process_pdf" THEN "embed" ELSE "returned"
            /\ outcome' = IF caller = "process_pdf" THEN outcome ELSE "chunks"
       ELSE /\ chunks' = <<>>
            /\ pc' = "while"
            /\ outcome' = outcome
    /\ start' = 0
    /\ UNCHANGED <<caller, text, chunk_size, overlap, document_id, filename, points>>
    /\ UNCHANGED <<procVars, searchVars, appVars>>

\* one iteration of `while start < len(text)` with its trailing break
ChunkLoop ==
    /\ pc = "while"
    /\ start < Len(text)
    /\ Len(chunks) < Len(text) + MaxSpin
    /\ LET end == start + chunk_size
           chunk == PySlice(text, start, end)
           next == NextStart(start, chunk_size, overlap)
       IN  /\ chunks' = Append(chunks, chunk)
           /\ start' = next
           /\ IF next >= Len(text)
              THEN /\ pc' = IF caller = "process_pdf" THEN "embed" ELSE "returned"
                   /\ outcome' = IF caller = "process_pdf" THEN outcome ELSE "chunks"
              ELSE /\ pc' = "while"
                   /\ outcome' = outcome
    /\ UNCHANGED <<caller, text, chunk_size, overlap, document_id, filename, points>>
    /\ UNCHANGED <<procVars, searchVars, appVars>>

(***************************************************************************)
(* process_pdf, the background ingestion task.                             *)
(***************************************************************************)
\* text = processor.extract_text_from_pdf(content); if not text.strip(): return
ProcessPdfExtract ==
    /\ pc = "process_pdf"
    /\ \/ /\ text' = Strip(text)
          /\ IF Strip(Strip(text)) = <<>>
             THEN pc' = "done" /\ outcome' = "warning_no_text"
             ELSE pc' = "chunk_text" /\ outcome' = outcome
       \/ \* PyPDF2 raises: logged by the handler of process_pdf
          /\ text' = text
          /\ pc' = "done"
          /\ outcome' = "error"
    /\ UNCHANGED <<caller, chunk_size, overlap, chunks, start, document_id, filename, points>>
    /\ UNCHANGED <<procVars, searchVars, appVars>>

\* embeddings = processor.create_embeddings(chunks)
ProcessPdfEmbed ==
    /\ pc = "embed"
    /\ \/ pc' = "store" /\ outcome' = outcome
       \/ pc' = "done" /\ outcome' = "error"
    /\ UNCHANGED <<caller, text, chunk_size, overlap, chunks, start, document_id, filename, points>>
    /\ UNCHANGED <<procVars, searchVars, appVars>>

\* processor.store_in_qdrant(document_id, filename, chunks, embeddings)
ProcessPdfStore ==
    /\ pc = "store"
    /\ \/ /\ reachable
          /\ points' = Upsert(points, COLLECTION_NAME,
                 {MakePoint(document_id, filename, i - 1, chunks[i], Len(chunks)) :
                      i \in 1..Len(chunks)})
          /\ outcome' = "stored"
       \/ \* the upsert raises (store unreachable, points rejected): logged
          /\ points' = points
          /\ outcome' = "error"
    /\ pc' = "done"
    /\ last_op' = [op |-> "upsert", status |-> IF outcome' = "stored" THEN 200 ELSE 0,
                   reachable |-> reachable]
    /\ UNCHANGED <<caller, text, chunk_size, overlap, chunks, start, document_id, filename>>
    /\ UNCHANGED <<reachable, tasks, next_doc, deleted, searchVars, appVars>>

NoOp == [op |-> "none", status |-> 0, reachable |-> TRUE]

\* the processor variables of a single call of the chunker or the task
ProcIdle ==
    /\ reachable = TRUE
    /\ tasks = <<>>
    /\ next_doc = 1
    /\ last_op = NoOp
    /\ deleted = {}

\* a new session: no script runs, nothing uploaded, nothing cached
SessionIdle ==
    /\ rpc = "idle"
    /\ uploaded_file = <<>>   \* no file
    /\ clicked = <<>>         \* no delete button
    /\ next_uuid = 1
    /\ listed = {}
    /\ shown = {}
    /\ document_indexes = {}
    /\ cached_client = "unset"

\* the session and store variables while no script runs
AppIdle ==
    /\ SessionIdle
    /\ colls = {}

\* the search variables while no query runs
SearchIdle ==
    /\ limit = 1
    /\ spc = "idle"
    /\ collections = <<>>
    /\ idx = 1
    /\ responses = <<>>
    /\ all_results = <<>>
    /\ search_results = <<>>
    /\ banners = {}
    /\ full_response = "none"

InitChunk ==
    /\ SearchIdle
    /\ AppIdle
    /\ ProcIdle
    /\ document_id = 1
    /\ filename = "f.pdf"
    /\ \/ /\ caller = "chunk_text"
          /\ text \in Texts
          /\ chunk_size \in 1..MaxChunkSize
          /\ overlap \in 0..MaxOverlap
          /\ pc = "chunk_text"
       \/ /\ caller = "chunk_text"
          /\ text = ScenarioText
          /\ chunk_size = DEFAULT_CHUNK_SIZE
          /\ overlap = DEFAULT_OVERLAP
          /\ pc = "chunk_text"
       \/ /\ caller = "process_pdf"
          /\ text \in Texts \cup {ScenarioText}
          /\ chunk_size = DEFAULT_CHUNK_SIZE
          /\ overlap = DEFAULT_OVERLAP
          /\ pc = "process_pdf"
    /\ chunks = <<>>
    /\ start = 0
    /\ outcome = "running"
    /\ points = {}

NextChunk ==
    \/ ChunkEnter
    \/ ChunkLoop
    \/ ProcessPdfExtract
    \/ ProcessPdfEmbed
    \/ ProcessPdfStore

SpecChunk == InitChunk /\ [][NextChunk]_vars

(***************************************************************************)
(* File and collection names (src/app_qdrant_api.py), as Python strings.   *)
(***************************************************************************)
\* COLLECTION_NAME = "pdf_documents"
APP_COLLECTION_NAME == <<"p", "d", "f", "_", "d", "o", "c", "u", "m", "e", "n", "t", "s">>

DotPdf == <<".", "p", "d", "f">>

\* s.startswith(prefix)
StartsWith(s, prefix) ==
    Len(s) >= Len(prefix) /\ SubSeq(s, 1, Len(prefix)) = prefix

\* s.replace(old, new): every occurrence, left to right, not overlapping
RECURSIVE Replace(_, _, _)
Replace(s, old, new) ==
    IF s = <<>> THEN <<>>
    ELSE IF StartsWith(s, old)
         THEN new \o Replace(SubSeq(s, Len(old) + 1, Len(s)), old, new)
         ELSE <<Head(s)>> \o Replace(Tail(s), old, new)

\* f"{COLLECTION_NAME}_{file.name.replace('.pdf', '').replace(' ', '_')}"
CollectionNameOf(name) ==
    APP_COLLECTION_NAME \o <<"_">> \o Replace(Replace(name, DotPdf, <<>>), <<" ">>, <<"_">>)

\* the PDF files of the model: "a b.pdf", "a_b.pdf", "c.pdf", "d.pdf"
FileAB == <<"a", " ", "b">> \o DotPdf
FileA_B == <<"a", "_", "b">> \o DotPdf
FileC == <<"c">> \o DotPdf
FileD == <<"d">> \o DotPdf
AppFiles == {FileAB, FileA_B, FileC, FileD}

(***************************************************************************)
(* search_qdrant_api (src/app_qdrant_api.py): the store's answers.         *)
(***************************************************************************)
\* the collections get_all_collections() may list, in the store's order
AllCollections == <<CollectionNameOf(FileAB), CollectionNameOf(FileC), CollectionNameOf(FileD)>>

\* the filenames on the points of each collection: "a b.pdf" and "a_b.pdf"
\* are both stored in pdf_documents_a_b
FilesOf(c) == {f \in AppFiles : CollectionNameOf(f) = c}

Scores == 1..MaxScore

\* the "result" lists a collection's search may answer with: at most lim
\* hits, ordered by descending score
ResultLists(c, lim) ==
    UNION {
        {r \in [1..n -> [score : Scores, filename : FilesOf(c),
                         document_id : {c}, chunk_index : 0..(lim - 1)]] :
            /\ \A i \in 1..n : r[i].chunk_index = i - 1
            /\ \A i \in 1..(n - 1) : r[i].score >= r[i + 1].score}
        : n \in 0..lim}

(***************************************************************************)
(* The list operations of search_qdrant_api.                               *)
(***************************************************************************)
\* where list.sort(key=score, reverse=True) puts x in an already sorted
\* list: behind every element whose score is not smaller (the sort is stable)
InsertByScoreAtEnd(sorted, x) == Append(sorted, x)
InsertByScore(sorted, x) ==
    LET k == Cardinality({i \in 1..Len(sorted) : sorted[i].score >= x.score})
    IN  SubSeq(sorted, 1, k) \o <<x>> \o SubSeq(sorted, k + 1, Len(sorted))

\* all_results.sort(key=lambda x: x["score"], reverse=True)
RECURSIVE SortByScoreFrom(_, _)
SortByScoreFrom(sorted, rest) ==
    IF rest = <<>> THEN sorted
    ELSE SortByScoreFrom(InsertByScore(sorted, Head(rest)), Tail(rest))

SortByScore(s) == SortByScoreFrom(<<>>, s)

\* the keys of doc_results, in insertion order
RECURSIVE FileOrderFrom(_, _)
FileOrderFrom(seen, rest) ==
    IF rest = <<>> THEN seen
    ELSE LET f == Head(rest).filename
         IN  IF \E i \in 1..Len(seen) : seen[i] = f
             THEN FileOrderFrom(seen, Tail(rest))
             ELSE FileOrderFrom(Append(seen, f), Tail(rest))

FileOrder(s) == FileOrderFrom(<<>>, s)

\* doc_results[filename]
ResultsOfFile(s, f) ==
    LET IsOfFile(h) == h.filename = f
    IN  SelectSeq(s, IsOfFile)

\* results_per_doc = max(1, limit // len(doc_results))
ResultsPerDocNoQuota(lim, d) == lim
ResultsPerDoc(lim, d) == Max(1, lim \div d)

\* results[:results_per_doc]
TakeLast(results, n) ==
    SubSeq(results, Len(results) - Min(n, Len(results)) + 1, Len(results))
TakeFirst(results, n) == SubSeq(results, 1, Min(n, Len(results)))

\* balanced_results.extend(results[:results_per_doc]) for every document
ExtendPerDocFirstFile(s, files, n) ==
    IF files = <<>> THEN <<>> ELSE TakeFirst(ResultsOfFile(s, Head(files)), n)
RECURSIVE ExtendPerDoc(_, _, _)
ExtendPerDoc(s, files, n) ==
    IF files = <<>> THEN <<>>
    ELSE TakeFirst(ResultsOfFile(s, Head(files)), n) \o ExtendPerDoc(s, Tail(files), n)

\* lines 233-255: the value returned for the sorted all_results
BalancedResultsQuotaAlways(sorted, lim) ==
    TakeFirst(SortByScore(ExtendPerDoc(sorted, FileOrder(sorted), 1)), lim)
BalancedResults(sorted, lim) ==
    IF Len(sorted) > lim
    THEN LET files == FileOrder(sorted)
             per_doc == ResultsPerDoc(lim, Len(files))
             balanced == SortByScore(ExtendPerDoc(sorted, files, per_doc))
         IN  TakeFirst(balanced, lim)
    ELSE TakeFirst(sorted, lim)

(***************************************************************************)
(* search_qdrant_api, one action per step.                                 *)
(***************************************************************************)
\* embed_model.get_text_embedding(query); a raise is caught at line 257
SearchEmbed ==
    /\ spc = "embed"
    /\ \/ /\ spc' = "list"
          /\ UNCHANGED <<search_results, banners>>
       \/ /\ spc' = "handler"
          /\ search_results' = <<>>
          /\ banners' = banners \cup {"error: Error searching Qdrant"}
    /\ UNCHANGED <<limit, collections, idx, responses, all_results, full_response>>
    /\ UNCHANGED <<chunkVars, procVars, appVars>>

\* collections = get_all_collections(); if not collections: return []
\* on a store whose prefixed collections are a leading part of `stored`
SearchListFrom(stored) ==
    /\ spc = "list"
    /\ \/ \E n \in 0..Len(stored) :
            /\ collections' = SubSeq(stored, 1, n)
            /\ IF n = 0
               THEN /\ spc' = "handler"
                    /\ search_results' = <<>>
                    /\ banners' = banners \cup {"warning: No collections found in Qdrant"}
               ELSE /\ spc' = "for"
                    /\ search_results' = search_results
                    /\ banners' = banners \cup {"info: Searching across collections"}
       \/ \* the store does not answer 200, or the request raises:
          \* get_all_collections reports it and returns []
          /\ collections' = <<>>
          /\ spc' = "handler"
          /\ search_results' = <<>>
          /\ banners' = banners \cup {"error: Failed to get collections",
                                      "warning: No collections found in Qdrant"}
    /\ idx' = 1
    /\ UNCHANGED <<limit, responses, all_results, full_response>>
    /\ UNCHANGED <<chunkVars, procVars, appVars>>

SearchListCollections == SearchListFrom(AllCollections)

\* one iteration of `for collection in collections`
SearchCollection ==
    /\ spc = "for"
    /\ idx <= Len(collections)
    /\ \/ \E r \in ResultLists(collections[idx], limit) :
            /\ responses' = Append(responses, [status |-> 200, result |-> r])
            /\ all_results' = all_results \o r
            /\ banners' = banners \cup {"info: Found results in collection"}
            /\ spc' = "for"
            /\ idx' = idx + 1
            /\ search_results' = search_results
       \/ \* a status other than 200: reported, the loop goes on
          /\ responses' = Append(responses, [status |-> 500, result |-> <<>>])
          /\ all_results' = all_results
          /\ banners' = banners \cup {"error: Failed to search collection"}
          /\ spc' = "for"
          /\ idx' = idx + 1
          /\ search_results' = search_results
       \/ \* requests.post raises: caught at line 257, return []
          /\ responses' = Append(responses, [status |-> 0, result |-> <<>>])
          /\ all_results' = all_results
          /\ banners' = banners \cup {"error: Error searching Qdrant"}
          /\ spc' = "handler"
          /\ idx' = idx
          /\ search_results' = <<>>
    /\ UNCHANGED <<limit, collections, full_response>>
    /\ UNCHANGED <<chunkVars, procVars, appVars>>

\* after the loop: sort, balance, return
SearchReturn ==
    /\ spc = "for"
    /\ idx > Len(collections)
    /\ all_results' = SortByScore(all_results)
    /\ search_results' = BalancedResults(SortByScore(all_results), limit)
    /\ banners' = banners \cup {"info: Total results found"}
    /\ spc' = "handler"
    /\ UNCHANGED <<limit, collections, idx, responses, full_response>>
    /\ UNCHANGED <<chunkVars, procVars, appVars>>

\* the chat handler, lines 388-440, on the value search_qdrant_api returned
ChatRespond ==
    /\ spc = "handler"
    /\ IF search_results = <<>>
       THEN full_response' = "No documents have been uploaded yet or no relevant information found."
       ELSE \/ full_response' = "answer with sources"
            \/ \* load_llm() or llm.complete() raises
               full_response' = "Sorry, I encountered an error"
    /\ spc' = "done"
    /\ UNCHANGED <<limit, collections, idx, responses, all_results, search_results, banners>>
    /\ UNCHANGED <<chunkVars, procVars, appVars>>

\* the chunker variables while no ingestion runs
ChunkIdle ==
    /\ caller = "chunk_text"
    /\ text = <<>>
    /\ chunk_size = DEFAULT_CHUNK_SIZE
    /\ overlap = DEFAULT_OVERLAP
    /\ chunks = <<>>
    /\ start = 0
    /\ pc = "idle"
    /\ outcome = "running"
    /\ document_id = 0
    /\ filename = ""
    /\ points = {}

InitSearch ==
    /\ ChunkIdle
    /\ AppIdle
    /\ ProcIdle
    /\ limit \in 1..MaxLimit
    /\ spc = "embed"
    /\ collections = <<>>
    /\ idx = 1
    /\ responses = <<>>
    /\ all_results = <<>>
    /\ search_results = <<>>
    /\ banners = {}
    /\ full_response = "none"

NextSearch ==
    \/ SearchEmbed
    \/ SearchListCollections
    \/ SearchCollection
    \/ SearchReturn
    \/ ChatRespond

SpecSearch == InitSearch /\ [][NextSearch]_vars

\* a larger limit, on a store that holds the collections of "c.pdf" and "d.pdf"
WideLimit == 3

TwoCollections == <<CollectionNameOf(FileC), CollectionNameOf(FileD)>>

SearchListTwoCollections == SearchListFrom(TwoCollections)

InitSearchWide ==
    /\ ChunkIdle
    /\ AppIdle
    /\ ProcIdle
    /\ limit = WideLimit
    /\ spc = "embed"
    /\ collections = <<>>
    /\ idx = 1
    /\ responses = <<>>
    /\ all_results = <<>>
    /\ search_results = <<>>
    /\ banners = {}
    /\ full_response = "none"

NextSearchWide ==
    \/ SearchEmbed
    \/ SearchListTwoCollections
    \/ SearchCollection
    \/ SearchReturn
    \/ ChatRespond

SpecSearchWide == InitSearchWide /\ [][NextSearchWide]_vars

(***************************************************************************)
(* The processor API (src/processor/main.py): /health, /upload, /search,   *)
(* and the background task process_pdf run by the event loop.  process_pdf *)
(* is a coroutine without an await: once started, no other handler runs    *)
(* until it has returned.                                                  *)
(***************************************************************************)
\* the files a client may post to /upload: name and extracted text
UploadNames == {"G.PDF", "notes.txt"}

\* file.filename.lower().endswith('.pdf')
IsPdfName(name) == name \in {"f.pdf", "G.PDF"}

UploadTexts == {<<" ", " ">>, <<"a", "b">>, ScenarioText}

\* the event loop runs no task
LoopFree == pc \in {"idle", "done"}

\* the vector store goes down or comes back
StoreFlip ==
    /\ reachable' = ~reachable
    /\ UNCHANGED <<tasks, next_doc, deleted, last_op, chunkVars, searchVars, appVars>>

\* GET /health
HealthCheck ==
    /\ LoopFree
    /\ last_op' = [op |-> "health", status |-> IF reachable THEN 200 ELSE 503,
                   reachable |-> reachable]
    /\ UNCHANGED <<reachable, tasks, next_doc, deleted, chunkVars, searchVars, appVars>>

\* POST /upload
UploadPdf ==
    /\ LoopFree
    /\ next_doc <= MaxUploads
    /\ \E name \in UploadNames, content \in UploadTexts :
         IF ~IsPdfName(name)
         THEN /\ last_op' = [op |-> "upload", status |-> 400, reachable |-> reachable]
              /\ UNCHANGED <<tasks, next_doc>>
         ELSE \/ /\ tasks' = Append(tasks, [document_id |-> next_doc, filename |-> name,
                                            content |-> content])
                 /\ next_doc' = next_doc + 1
                 /\ last_op' = [op |-> "upload", status |-> 200, reachable |-> reachable]
              \/ \* file.read() raises: HTTPException 500, no task
                 /\ last_op' = [op |-> "upload", status |-> 500, reachable |-> reachable]
                 /\ UNCHANGED <<tasks, next_doc>>
    /\ UNCHANGED <<reachable, deleted, chunkVars, searchVars, appVars>>

\* the event loop starts the next background task: process_pdf(document_id, filename, content)
TaskStart ==
    /\ LoopFree
    /\ tasks # <<>>
    /\ caller' = "process_pdf"
    /\ document_id' = Head(tasks).document_id
    /\ filename' = Head(tasks).filename
    /\ text' = Head(tasks).content
    /\ chunk_size' = DEFAULT_CHUNK_SIZE
    /\ overlap' = DEFAULT_OVERLAP
    /\ chunks' = <<>>
    /\ start' = 0
    /\ pc' = "process_pdf"
    /\ outcome' = "running"
    /\ tasks' = Tail(tasks)
    /\ UNCHANGED <<points, reachable, next_doc, deleted, last_op, searchVars, appVars>>

\* GET /search?query=..&limit=..
SearchDocuments ==
    /\ LoopFree
    /\ \/ \* model.encode and qdrant_client.search are called
          last_op' = [op |-> "search", status |-> IF reachable THEN 200 ELSE 500,
                      reachable |-> reachable]
       \/ \* model.encode raises before the store is asked
          last_op' = [op |-> "encode", status |-> 500, reachable |-> reachable]
    /\ UNCHANGED <<reachable, tasks, next_doc, deleted, chunkVars, searchVars, appVars>>

\* points_selector: filter on the payload key document_id, in COLLECTION_NAME
DeleteWholeCollection(stored, c, doc) == {p \in stored : p.collection # c}
DeleteByDocument(stored, c, doc) ==
    {p \in stored : ~(p.collection = c /\ p.document_id = doc)}

\* DELETE /documents/{document_id}
DeleteDocument ==
    /\ LoopFree
    /\ \E doc \in 1..(next_doc - 1) :   \* an id that /upload has returned
         IF reachable
         THEN /\ points' = DeleteByDocument(points, COLLECTION_NAME, doc)
              /\ deleted' = deleted \cup {doc}
              /\ last_op' = [op |-> "delete", status |-> 200, reachable |-> reachable,
                             document_id |-> doc]
         ELSE \* qdrant_client.delete raises: HTTPException 500
              /\ points' = points
              /\ deleted' = deleted
              /\ last_op' = [op |-> "delete", status |-> 500, reachable |-> reachable,
                             document_id |-> doc]
    /\ UNCHANGED <<chunkLocals, reachable, tasks, next_doc, searchVars, appVars>>

\* limit=1000 of the scroll in list_documents
SCROLL_LIMIT == 1000

\* qdrant_client.scroll(limit=n)[0]: the first n points of the collection
Scroll(stored, c, n) ==
    LET in_c == {p \in stored : p.collection = c}
    IN  IF Cardinality(in_c) <= n THEN in_c
        ELSE CHOOSE page \in SUBSET in_c : Cardinality(page) = n

\* the loop over the scrolled points: one entry per document_id, filename and
\* total_chunks from the first point met, chunks_processed counted
GroupByDocument(page) ==
    {LET of_doc == {p \in page : p.document_id = doc}
         first == CHOOSE p \in of_doc : TRUE
     IN  [document_id |-> doc,
          filename |-> first.filename,
          total_chunks |-> first.total_chunks,
          chunks_processed |-> Cardinality(of_doc)]
     : doc \in {p.document_id : p \in page}}

\* GET /documents
ListDocuments ==
    /\ LoopFree
    /\ IF reachable
       THEN last_op' = [op |-> "list", status |-> 200, reachable |-> reachable,
                        documents |-> GroupByDocument(
                            Scroll(points, COLLECTION_NAME, SCROLL_LIMIT))]
       ELSE \* the scroll raises: HTTPException 500
            last_op' = [op |-> "list", status |-> 500, reachable |-> reachable]
    /\ UNCHANGED <<reachable, tasks, next_doc, deleted, chunkVars, searchVars, appVars>>

\* processor = PDFProcessor(): __init__ has run ensure_collection_exists
InitProc ==
    /\ SearchIdle
    /\ SessionIdle
    /\ colls = EnsureCollection({}, COLLECTION_NAME, VECTOR_SIZE)
    /\ ProcIdle
    /\ ChunkIdle

NextProc ==
    \/ StoreFlip
    \/ HealthCheck
    \/ UploadPdf
    \/ TaskStart
    \/ ProcessPdfExtract
    \/ ChunkEnter
    \/ ChunkLoop
    \/ ProcessPdfEmbed
    \/ ProcessPdfStore
    \/ SearchDocuments
    \/ DeleteDocument
    \/ ListDocuments

SpecProc == InitProc /\ [][NextProc]_vars

(***************************************************************************)
(* The Streamlit script of src/app_qdrant_api.py: every user interaction   *)
(* reruns it from the top (health check, upload handler, stored documents, *)
(* chat).                                                                  *)
(***************************************************************************)
NoFile == <<>>
NoClick == <<>>

\* vector_size=1024 at the call of ensure_collection_exists
APP_VECTOR_SIZE == 1024

\* docs = loader.load_data(): one document per page of the PDF
LoadData(file) ==
    IF file = FileAB THEN <<"page 1", "page 2">> ELSE <<"page 1">>

\* the point built for docs[i] (lines 152-162); uuid stands for str(uuid.uuid4())
AppPoint(uuid, collection_name, name, i, doc_text, total) ==
    [id |-> uuid,
     document_id |-> collection_name,
     filename |-> name,
     chunk_index |-> i,
     text |-> doc_text,
     total_chunks |-> total]

\* filename = collection.replace(f"{COLLECTION_NAME}_", "").replace("_", " ") + ".pdf"
DisplayNameOf(c) ==
    Replace(Replace(c, APP_COLLECTION_NAME \o <<"_">>, <<>>), <<"_">>, <<" ">>) \o DotPdf

\* the names of the store's collections that start with COLLECTION_NAME
ListedCollections == {c.name : c \in {k \in colls : StartsWith(k.name, APP_COLLECTION_NAME)}}

\* the user acts on a widget, which starts a rerun of the script
UserEvent ==
    /\ rpc = "idle"
    /\ \/ \E f \in AppFiles \cup {NoFile} :
            uploaded_file' = f /\ clicked' = NoClick
       \/ \* a chat message, or any other widget
          uploaded_file' = uploaded_file /\ clicked' = NoClick
       \/ \E c \in ListedCollections :
            uploaded_file' = uploaded_file /\ clicked' = c
    /\ rpc' = "health"
    /\ UNCHANGED <<colls, next_uuid, listed, shown, sessionVars, chunkVars, procVars, searchVars>>

\* lines 303-309: if not check_qdrant_health(): st.stop()
AppHealth ==
    /\ rpc = "health"
    /\ IF reachable
       THEN rpc' = IF uploaded_file # NoFile THEN "ensure" ELSE "stored"
       ELSE \* st.stop(): the stored documents are not drawn
            rpc' = "idle"
    /\ listed' = {}
    /\ shown' = {}
    /\ last_op' = [op |-> "health", status |-> IF reachable THEN 200 ELSE 0,
                   reachable |-> reachable]
    /\ UNCHANGED <<uploaded_file, clicked, colls, next_uuid, sessionVars, chunkVars,
                   reachable, tasks, next_doc, deleted, searchVars>>

\* process_pdf_with_llamaindex_and_qdrant_api up to ensure_collection_exists
AppEnsureCollection ==
    /\ rpc = "ensure"
    /\ LET name == CollectionNameOf(uploaded_file)
           exists == \E c \in colls : c.name = name
       IN  \/ \* requests raises: st.error, return False
              /\ ~reachable
              /\ colls' = colls
              /\ rpc' = "stored"
           \/ \* GET answers 200
              /\ reachable /\ exists
              /\ colls' = EnsureCollection(colls, name, APP_VECTOR_SIZE)
              /\ rpc' = "points"
           \/ \* GET answers 404, PUT creates the collection
              /\ reachable /\ ~exists
              /\ colls' = EnsureCollection(colls, name, APP_VECTOR_SIZE)
              /\ rpc' = "points"
           \/ \* GET answers 404, PUT is rejected: st.error, return False
              /\ reachable /\ ~exists
              /\ colls' = colls
              /\ rpc' = "stored"
    /\ last_op' = [op |-> "create", status |-> IF rpc' = "points" THEN 200 ELSE 0,
                   reachable |-> reachable]
    /\ UNCHANGED <<uploaded_file, clicked, next_uuid, listed, shown, sessionVars, chunkVars,
                   reachable, tasks, next_doc, deleted, searchVars>>

\* lines 142-176: embed every document, PUT the points
AppPutPoints ==
    /\ rpc = "points"
    /\ LET name == CollectionNameOf(uploaded_file)
           docs == LoadData(uploaded_file)
           new == {AppPoint(next_uuid + i - 1, name, uploaded_file, i - 1, docs[i], Len(docs)) :
                       i \in 1..Len(docs)}
       IN  \/ /\ reachable
              /\ \E c \in colls : c.name = name /\ c.size = APP_VECTOR_SIZE
              /\ next_uuid + Len(docs) - 1 <= MaxUuid
              /\ points' = Upsert(points, name, new)
              /\ next_uuid' = next_uuid + Len(docs)
              /\ last_op' = [op |-> "upsert", status |-> 200, reachable |-> reachable]
           \/ \* the embedding or the request raises, or the store rejects the points
              /\ points' = points
              /\ next_uuid' = next_uuid
              /\ last_op' = [op |-> "upsert", status |-> 0, reachable |-> reachable]
    /\ rpc' = "stored"
    /\ UNCHANGED <<uploaded_file, clicked, colls, listed, shown, sessionVars, chunkLocals,
                   reachable, tasks, next_doc, deleted, searchVars>>

\* lines 332-346: the stored documents and their delete buttons
AppStoredDocuments ==
    /\ rpc = "stored"
    /\ IF reachable /\ clicked \in ListedCollections
       THEN \* delete_collection_api answers 200: st.rerun()
            /\ colls' = {c \in colls : c.name # clicked}
            /\ points' = {q \in points : q.collection # clicked}
            /\ rpc' = "health"
       ELSE /\ colls' = colls
            /\ points' = points
            /\ rpc' = "idle"
    /\ listed' = IF reachable THEN ListedCollections ELSE {}
    /\ shown' = {DisplayNameOf(c) : c \in listed'}
    /\ clicked' = NoClick
    /\ UNCHANGED <<uploaded_file, next_uuid, sessionVars, chunkLocals, procVars, searchVars>>

InitApp ==
    /\ SearchIdle
    /\ ProcIdle
    /\ ChunkIdle
    /\ AppIdle

NextApp ==
    \/ StoreFlip
    \/ UserEvent
    \/ AppHealth
    \/ AppEnsureCollection
    \/ AppPutPoints
    \/ AppStoredDocuments

SpecApp == InitApp /\ [][NextApp]_vars

\* the same script against a store that already holds a collection of the
\* name of "c.pdf", made with the processor's vector size
InitAppMismatch ==
    /\ SearchIdle
    /\ ProcIdle
    /\ ChunkIdle
    /\ SessionIdle
    /\ colls = {CreatedCollection(CollectionNameOf(FileC), VECTOR_SIZE)}

SpecAppMismatch == InitAppMismatch /\ [][NextApp]_vars

(***************************************************************************)
(* The same script with one uploaded file of any name stem + ".pdf": the   *)
(* collection name made from it and the filename the sidebar shows for it. *)
(***************************************************************************)
MaxStem == 4

NameChars == {"a", " ", "_", ".", "p", "d", "f"}

\* the names st.file_uploader(type="pdf") may hand over
Filenames == {stem \o DotPdf : stem \in SeqsUpTo(NameChars, MaxStem)}

\* any widget is used while the file stays selected
Rerun ==
    /\ rpc = "idle"
    /\ rpc' = "health"
    /\ UNCHANGED <<uploaded_file, clicked, colls, next_uuid, listed, shown, sessionVars,
                   chunkVars, procVars, searchVars>>

InitNames ==
    /\ SearchIdle
    /\ ProcIdle
    /\ ChunkIdle
    /\ rpc = "health"
    /\ uploaded_file \in Filenames
    /\ clicked = NoClick
    /\ colls = {}
    /\ next_uuid = 1
    /\ listed = {}
    /\ shown = {}
    /\ document_indexes = {}
    /\ cached_client = "unset"

NextNames ==
    \/ Rerun
    \/ AppHealth
    \/ AppEnsureCollection
    \/ AppPutPoints
    \/ AppStoredDocuments

SpecNames == InitNames /\ [][NextNames]_vars

(***************************************************************************)
(* The Streamlit script of src/app_qdrant_only.py: the same sidebar, with  *)
(* a cached store client, ingestion through VectorStoreIndex and a chat    *)
(* handler that queries the indexes kept in st.session_state.              *)
(***************************************************************************)
\* the point the vector store integration writes for the node of docs[i]
OnlyNode(uuid, name, i, doc_text) ==
    [id |-> uuid, filename |-> name, page |-> i, text |-> doc_text]

\* check_qdrant_health(): get_qdrant_client() is computed once per process
\* and its value, None included, is kept by @st.cache_resource
OnlyHealth ==
    /\ rpc = "health"
    /\ cached_client' = IF cached_client = "unset"
                        THEN (IF reachable THEN "client" ELSE "None")
                        ELSE cached_client
    /\ IF cached_client' = "client" /\ reachable
       THEN rpc' = IF uploaded_file # NoFile THEN "process" ELSE "stored"
       ELSE \* st.stop(): the stored documents are not drawn
            rpc' = "idle"
    /\ listed' = {}
    /\ shown' = {}
    /\ full_response' = "none"
    /\ last_op' = [op |-> "health",
                   status |-> IF cached_client' = "client" /\ reachable THEN 200 ELSE 0,
                   reachable |-> reachable]
    /\ UNCHANGED <<limit, spc, collections, idx, responses, all_results, search_results, banners>>
    /\ UNCHANGED <<uploaded_file, clicked, colls, next_uuid, document_indexes, chunkVars,
                   reachable, tasks, next_doc, deleted>>

\* lines 199-218: index = process_pdf_with_llamaindex(uploaded_file)
OnlyProcess ==
    /\ rpc = "process"
    /\ LET name == CollectionNameOf(uploaded_file)
           docs == LoadData(uploaded_file)
           new == {OnlyNode(next_uuid + i - 1, uploaded_file, i - 1, docs[i]) :
                       i \in 1..Len(docs)}
       IN  \/ \* from_documents returns the index: it is kept in the session
              /\ reachable
              /\ next_uuid + Len(docs) - 1 <= MaxUuid
              /\ colls' = EnsureCollection(colls, name, APP_VECTOR_SIZE)
              /\ points' = Upsert(points, name, new)
              /\ next_uuid' = next_uuid + Len(docs)
              /\ document_indexes' = document_indexes \cup {name}
              /\ last_op' = [op |-> "upsert", status |-> 200, reachable |-> reachable]
           \/ \* the collection is made, then the embedding or the upsert raises
              /\ reachable
              /\ colls' = EnsureCollection(colls, name, APP_VECTOR_SIZE)
              /\ UNCHANGED <<points, next_uuid, document_indexes>>
              /\ last_op' = [op |-> "upsert", status |-> 0, reachable |-> reachable]
           \/ \* the loader, the embedding model or the store raises before any write
              /\ UNCHANGED <<colls, points, next_uuid, document_indexes>>
              /\ last_op' = [op |-> "upsert", status |-> 0, reachable |-> reachable]
    /\ rpc' = "stored"
    /\ UNCHANGED <<uploaded_file, clicked, listed, shown, cached_client, chunkLocals,
                   reachable, tasks, next_doc, deleted, searchVars>>

\* lines 224-237: the stored documents and their delete buttons
OnlyStoredDocuments ==
    /\ rpc = "stored"
    /\ listed' = IF reachable THEN ListedCollections ELSE {}
    /\ shown' = {DisplayNameOf(c) : c \in listed'}
    /\ last_op' = [op |-> "list", status |-> IF reachable THEN 200 ELSE 0,
                   reachable |-> reachable]
    /\ IF reachable /\ clicked \in ListedCollections
       THEN \* delete_collection returns True: st.rerun()
            /\ colls' = {c \in colls : c.name # clicked}
            /\ points' = {q \in points : q.collection # clicked}
            /\ rpc' = "health"
       ELSE /\ colls' = colls
            /\ points' = points
            /\ rpc' = "chat"
    /\ clicked' = NoClick
    /\ UNCHANGED <<uploaded_file, next_uuid, sessionVars, chunkLocals,
                   reachable, tasks, next_doc, deleted, searchVars>>

\* lines 259-306: the chat handler, when the rerun carries a prompt
OnlyChat ==
    /\ rpc = "chat"
    /\ \/ \* no prompt, or no API key: st.stop()
          full_response' = full_response
       \/ \* indexes = st.session_state.get('document_indexes', {})
          IF document_indexes = {}
          THEN full_response' = "No documents have been uploaded yet. Please upload a PDF document first."
          ELSE \/ full_response' = "combined response"
               \/ \* every query_engine.query raises
                  full_response' = "I couldn't find relevant information in the uploaded documents."
               \/ \* load_llm() raises
                  full_response' = "Sorry, I encountered an error"
    /\ rpc' = "idle"
    /\ UNCHANGED <<limit, spc, collections, idx, responses, all_results, search_results, banners>>
    /\ UNCHANGED <<uploaded_file, clicked, colls, next_uuid, listed, shown, sessionVars,
                   chunkVars, procVars>>

\* the page is opened in a new browser session: st.session_state starts
\* empty, the cached resources of the process stay
NewSession ==
    /\ rpc = "idle"
    /\ uploaded_file' = NoFile
    /\ clicked' = NoClick
    /\ listed' = {}
    /\ shown' = {}
    /\ document_indexes' = {}
    /\ rpc' = "health"
    /\ UNCHANGED <<colls, next_uuid, cached_client, chunkVars, procVars, searchVars>>

InitOnly ==
    /\ SearchIdle
    /\ ProcIdle
    /\ ChunkIdle
    /\ AppIdle

NextOnly ==
    \/ StoreFlip
    \/ UserEvent
    \/ NewSession
    \/ OnlyHealth
    \/ OnlyProcess
    \/ OnlyStoredDocuments
    \/ OnlyChat

SpecOnly == InitOnly /\ [][NextOnly]_vars

(***************************************************************************)
(* Properties of the chunker and the ingestion task (SpecChunk).           *)
(***************************************************************************)
CeilDiv(a, b) == (a + b - 1) \div b

\* chunk[n:]
DropFirst(chunk, n) == PySlice(chunk, n, Len(chunk))

\* the first chunk followed by every later chunk without its first ov characters
RECURSIVE JoinWithoutOverlap(_, _)
JoinWithoutOverlap(cs, ov) ==
    IF Len(cs) <= 1 THEN (IF cs = <<>> THEN <<>> ELSE cs[1])
    ELSE JoinWithoutOverlap(SubSeq(cs, 1, Len(cs) - 1), ov) \o DropFirst(cs[Len(cs)], ov)

ValidConfig == 0 <= overlap /\ overlap < chunk_size

\* C3: a text longer than chunk_size is cut into
\* ceil((len - overlap) / (chunk_size - overlap)) chunks, a shorter one into 1;
\* the 2500-character document is stored as 3 points, indices 0..2, total_chunks 3.
C3_ChunkCount ==
    /\ (pc = "returned" /\ ValidConfig) =>
           Len(chunks) = IF Len(text) <= chunk_size
                         THEN 1
                         ELSE CeilDiv(Len(text) - overlap, chunk_size - overlap)
    /\ (pc = "done" /\ outcome = "stored" /\ Len(text) = ScenarioLen) =>
           /\ {p.chunk_index : p \in points} = 0..2
           /\ \A p \in points : p.total_chunks = 3

\* C8: with overlap >= chunk_size on a text longer than chunk_size the call
\* ends in a configuration error before the window loop is entered.
C8_BadOverlapFailsFast ==
    (overlap >= chunk_size /\ Len(text) > chunk_size /\ pc # "chunk_text")
        => outcome = "ConfigurationError"

\* C9: for overlap < chunk_size the chunks, each but the first without its
\* first `overlap` characters, concatenate to the original text.
C9_ChunksReconstructText ==
    (pc = "returned" /\ ValidConfig) =>
        /\ chunks # <<>>
        /\ JoinWithoutOverlap(chunks, overlap) = text

\* C9 witness: several windows, the last one shorter than the overlap
C9_Witness ==
    /\ pc = "returned"
    /\ ValidConfig
    /\ overlap >= 1
    /\ Len(chunks) >= 3
    /\ Len(chunks[Len(chunks)]) < overlap
    /\ \E i, j \in 1..Len(text) : text[i] # text[j]

\* C10: an empty or whitespace-only text yields zero chunks, and its
\* ingestion stores no point and is no error.
C10_BlankTextYieldsNoChunks ==
    /\ (pc = "returned" /\ Strip(text) = <<>>) => chunks = <<>>
    /\ outcome = "warning_no_text" => points = {}

(***************************************************************************)
(* Properties of the processor API (SpecProc) and of the Streamlit script  *)
(* (SpecApp).                                                              *)
(***************************************************************************)
\* C6: no upload is accepted, no upsert and no search is made while the vector
\* store is unreachable.
C6_NothingProceedsWhileUnreachable ==
    (\/ last_op.op = "upload" /\ last_op.status = 200
     \/ last_op.op \in {"upsert", "search"})
        => last_op.reachable

\* C7: the store never holds two points with the same (document_id, chunk_index).
C7_OnePointPerChunk ==
    \A p, q \in points :
        (p.collection = q.collection /\ p.document_id = q.document_id
            /\ p.chunk_index = q.chunk_index) => p = q

(***************************************************************************)
(* Properties of search_qdrant_api and the chat handler (SpecSearch).      *)
(***************************************************************************)
\* the documents (filenames) with a hit in s
DocsOf(s) == {s[i].filename : i \in 1..Len(s)}

HitsOf(s) == {s[i] : i \in 1..Len(s)}

CountOfFile(s, f) == Cardinality({i \in 1..Len(s) : s[i].filename = f})

\* the loop ended and lines 229-255 ran
ReturnedMerged == spc \in {"handler", "done"} /\ "info: Total results found" \in banners

\* C1: unless fewer than limit hits exist, the returned list has hits from
\* min(d, limit) distinct documents, d the number of documents of the merged set.
C1_BalancedCoversDocuments ==
    (ReturnedMerged /\ Len(all_results) >= limit) =>
        Cardinality(DocsOf(search_results))
            = Min(Cardinality(DocsOf(all_results)), limit)

\* C1 witness: balancing is active and the plain top-limit cut of the merged
\* list would have shown fewer documents
C1_Witness ==
    /\ ReturnedMerged
    /\ Len(all_results) > limit
    /\ Cardinality(DocsOf(SubSeq(all_results, 1, limit)))
           < Cardinality(DocsOf(search_results))
    /\ Cardinality(DocsOf(search_results)) = Min(Cardinality(DocsOf(all_results)), limit)

\* C2: when the merged list exceeds limit, each document keeps at most
\* max(1, limit // d) hits and they are its highest-scoring ones; with two
\* documents and limit 2 the result is the best hit of each.
C2_PerDocQuota ==
    (ReturnedMerged /\ Len(all_results) > limit) =>
        LET d == Cardinality(DocsOf(all_results))
            quota == IF limit \div d >= 1 THEN limit \div d ELSE 1
        IN  /\ \A f \in DocsOf(all_results) :
                   /\ CountOfFile(search_results, f) <= quota
                   /\ d <= limit =>
                          CountOfFile(search_results, f)
                              = Min(quota, CountOfFile(all_results, f))
            /\ HitsOf(search_results) \subseteq HitsOf(all_results)
            /\ \A kept \in HitsOf(search_results) :
                   \A h \in HitsOf(all_results) \ HitsOf(search_results) :
                       h.filename = kept.filename => h.score <= kept.score
            /\ (d = 2 /\ limit = 2) =>
                   /\ Len(search_results) = 2
                   /\ search_results[1].filename # search_results[2].filename
                   /\ \A i \in 1..2 : \A h \in HitsOf(all_results) :
                          h.filename = search_results[i].filename
                              => h.score <= search_results[i].score

\* C2 witness: two documents, limit 2, one document with a better and a worse hit
C2_Witness ==
    /\ ReturnedMerged
    /\ Len(all_results) > limit
    /\ limit = 2
    /\ Cardinality(DocsOf(all_results)) = 2
    /\ Len(search_results) = 2
    /\ \E h \in HitsOf(all_results) \ HitsOf(search_results) :
           \E kept \in HitsOf(search_results) :
               h.filename = kept.filename /\ h.score < kept.score

\* C4: a collection whose search fails (error status or raised request) is
\* skipped and the hits of the other collections are still returned.
C4_FailedCollectionSkipped ==
    (/\ spc \in {"handler", "done"}
     /\ \E i \in 1..Len(responses) : responses[i].status # 200
     /\ \E j \in 1..Len(responses) :
            responses[j].status = 200 /\ responses[j].result # <<>>)
        => search_results # <<>>

QueryFailed ==
    \/ "error: Error searching Qdrant" \in banners
    \/ "error: Failed to get collections" \in banners

NothingFoundResponse ==
    "No documents have been uploaded yet or no relevant information found."

\* C5: a query that failed is never answered with the 'nothing found' response.
C5_NothingFoundDistinctFromFailure ==
    (spc = "done" /\ QueryFailed) => full_response # NothingFoundResponse

\* C11: a listing that failed is never handed to the caller of
\* get_all_collections as an empty list.
C11_ListingFailureNotEmptyList ==
    ~("error: Failed to get collections" \in banners /\ collections = <<>>)

\* the hits of the answered collections, in the order the loop met them
RECURSIVE MergedOf(_)
MergedOf(rs) ==
    IF rs = <<>> THEN <<>> ELSE Head(rs).result \o MergedOf(Tail(rs))

NonIncreasing(s) == \A i \in 1..(Len(s) - 1) : s[i].score >= s[i + 1].score

\* C12: when the merged hits number at most limit, all of them are returned,
\* by descending score, and no document loses a hit to a quota.
C12_ShortMergeReturnedWhole ==
    (ReturnedMerged /\ Len(MergedOf(responses)) <= limit) =>
        /\ Len(search_results) = Len(MergedOf(responses))
        /\ HitsOf(search_results) = HitsOf(MergedOf(responses))
        /\ NonIncreasing(search_results)
        /\ \A f \in DocsOf(MergedOf(responses)) :
               CountOfFile(search_results, f) = CountOfFile(MergedOf(responses), f)

\* C12 witness: limit 2 and both merged hits are of one document, whose
\* quota under balancing would be smaller than its number of hits
C12_Witness ==
    /\ ReturnedMerged
    /\ limit = 2
    /\ Len(MergedOf(responses)) = 2
    /\ Cardinality(DocsOf(MergedOf(responses))) = 1
    /\ MergedOf(responses)[1].score > MergedOf(responses)[2].score
    /\ Len(search_results) = 2
    /\ Len(collections) > 1

\* C13: the returned list has at most limit entries and non-increasing
\* scores, whether or not balancing was applied.
C13_BoundedAndOrdered ==
    (spc \in {"handler", "done"}) =>
        /\ Len(search_results) <= limit
        /\ NonIncreasing(search_results)

\* C13 witness: the balanced path returns limit hits that the merge met in
\* ascending score
C13_Witness ==
    /\ ReturnedMerged
    /\ Len(MergedOf(responses)) > limit
    /\ Len(search_results) = limit
    /\ limit = 2
    /\ search_results[1].score > search_results[2].score
    /\ \E i \in 1..(Len(MergedOf(responses)) - 1) :
           MergedOf(responses)[i].score < MergedOf(responses)[i + 1].score

(***************************************************************************)
(* Properties of the collections (SpecApp, SpecAppMismatch).               *)
(***************************************************************************)
\* C14: ensure_collection_exists changes nothing and succeeds when the
\* collection exists; when it does not and the call succeeds, exactly the
\* collection of that name, the requested vector size and the cosine metric
\* is added; a second call then finds it and changes nothing.
C14_EnsureCollectionIdempotent ==
    [][(rpc = "ensure" /\ rpc' # "ensure") =>
          LET name == CollectionNameOf(uploaded_file)
              existed == \E c \in colls : c.name = name
              succeeded == last_op'.op = "create" /\ last_op'.status = 200
          IN  /\ points' = points
              /\ (existed /\ reachable) => (colls' = colls /\ succeeded)
              /\ existed => colls' = colls
              /\ (~existed /\ succeeded) =>
                     colls' = colls \cup {[name |-> name, size |-> 1024,
                                           distance |-> "Cosine"]}
              /\ ~succeeded => colls' = colls
              /\ succeeded => \E c \in colls' : c.name = name]_vars

\* C14 witness: the call succeeded on a collection that an earlier ingestion
\* of the same file had created and filled
C14_Witness ==
    /\ rpc = "points"
    /\ last_op.op = "create" /\ last_op.status = 200
    /\ \E p \in points : p.collection = CollectionNameOf(uploaded_file)
    /\ \E c \in colls : c.name = CollectionNameOf(uploaded_file)
                          /\ c.size = 1024 /\ c.distance = "Cosine"

\* C15: ensure_collection_exists does not succeed on a collection whose
\* vector size differs from the requested one, and leaves it as it was.
C15_SizeMismatchFails ==
    (/\ last_op.op = "create"
     /\ \E c \in colls : c.name = CollectionNameOf(uploaded_file)
                           /\ c.size # APP_VECTOR_SIZE)
        => last_op.status # 200

(***************************************************************************)
(* Properties of the processor's document endpoints (SpecProc).            *)
(***************************************************************************)
\* a step of DELETE /documents/{document_id}
DeleteStep ==
    /\ LoopFree
    /\ last_op'.op = "delete"
    /\ UNCHANGED <<reachable, tasks, pc>>

\* C16: a successful delete removes, in its one step, every point of the
\* deleted document_id and no point of any other document; a failed delete
\* removes nothing.
C16_DeleteRemovesExactlyTheDocument ==
    [][DeleteStep =>
          IF last_op'.status = 200
          THEN /\ \A p \in points' : p.document_id # last_op'.document_id
               /\ \A p \in points : p.document_id # last_op'.document_id => p \in points'
               /\ points' \subseteq points
          ELSE points' = points]_vars

\* C16 witness: the document stored last, of two chunks or more, has been
\* deleted and points of another document are still in the store
C16_Witness ==
    /\ last_op.op = "delete" /\ last_op.status = 200
    /\ pc = "done" /\ outcome = "stored"
    /\ document_id = last_op.document_id
    /\ Len(chunks) >= 2
    /\ points # {}
    /\ \A p \in points : p.document_id # last_op.document_id

\* a step of GET /documents
ListStep ==
    /\ LoopFree
    /\ last_op'.op = "list"
    /\ UNCHANGED <<reachable, tasks, pc, points>>

\* what an answer of GET /documents says about one document id
EntryOf(answer, doc) ==
    {[filename |-> e.filename, total_chunks |-> e.total_chunks,
      chunks_processed |-> e.chunks_processed] :
        e \in {k \in answer : k.document_id = doc}}

\* C17: an answer of GET /documents tells a document whose ingestion has
\* failed apart from a document whose ingestion has not run yet.
C17_FailureObservableByPolling ==
    [][(ListStep /\ last_op'.status = 200 /\ pc = "done" /\ outcome = "error") =>
          \A i \in 1..Len(tasks) :
              EntryOf(last_op'.documents, document_id)
                  # EntryOf(last_op'.documents, tasks[i].document_id)]_vars

(***************************************************************************)
(* Properties of the stored documents of the sidebar (SpecApp).            *)
(***************************************************************************)
\* every chunk of file is a point of the collection c
AllChunksStored(c, file) ==
    \A i \in 0..(Len(LoadData(file)) - 1) :
        \E p \in points :
            p.collection = c /\ p.filename = file /\ p.chunk_index = i

\* C18: a stored document the sidebar shows is the collection of a file all
\* of whose chunks have been upserted.
C18_ListedOnlyWhenFullyStored ==
    (rpc = "idle") =>
        \A c \in listed :
            \E file \in AppFiles : CollectionNameOf(file) = c /\ AllChunksStored(c, file)

\* the points of one document id in one collection
PointsOfDocument(c, doc) == {p \in points : p.collection = c /\ p.document_id = doc}

\* C20: the points of every document id agree on total_chunks, and their
\* chunk_index values are pairwise distinct and are exactly 0..total_chunks-1.
C20_ChunkIndexesFormRange ==
    \A q \in points :
        LET of_doc == PointsOfDocument(q.collection, q.document_id)
        IN  /\ \A p \in of_doc : p.total_chunks = q.total_chunks
            /\ {p.chunk_index : p \in of_doc} = 0..(q.total_chunks - 1)
            /\ \A p, r \in of_doc : p.chunk_index = r.chunk_index => p = r

(***************************************************************************)
(* Properties of the known documents of src/app_qdrant_only.py (SpecOnly). *)
(***************************************************************************)
\* C19: when a rerun has drawn the sidebar and ended, the documents it lists
\* are the prefixed collections of the store, and the documents the chat
\* handler queries are the same.
C19_KnownDocumentsAreTheStore ==
    (rpc = "idle" /\ last_op.op = "list" /\ last_op.status = 200) =>
        /\ listed = ListedCollections
        /\ document_indexes = listed

(***************************************************************************)
(* Properties of the per-document collections (SpecApp).                   *)
(***************************************************************************)
\* C21: all points of a collection carry the same filename.
C21_OneDocumentPerCollection ==
    \A p, q \in points : p.collection = q.collection => p.filename = q.filename

(***************************************************************************)
(* Properties of the shown filenames (SpecNames).                          *)
(***************************************************************************)
HasUnderscore(name) == \E i \in 1..Len(name) : name[i] = "_"

\* C22: for an uploaded file stem + ".pdf" whose stem has no underscore, the
\* filename the sidebar shows for the file's collection is the file's name.
C22_DisplayNameRoundTrip ==
    (rpc = "idle" /\ listed # {} /\ ~HasUnderscore(uploaded_file)) =>
        shown = {uploaded_file}

(***************************************************************************)
(* Properties of the upload handler across reruns (SpecApp).               *)
(***************************************************************************)
\* C23: while a file stays selected, the store holds at most one copy of its
\* chunks, however many reruns have happened.
C23_IngestedOncePerFile ==
    (rpc = "idle" /\ uploaded_file # NoFile) =>
        Cardinality({p \in points : p.filename = uploaded_file})
            <= Len(LoadData(uploaded_file))

(***************************************************************************)
(* Properties of the result length (SpecSearchWide).                       *)
(***************************************************************************)
\* the number of hits the quota lets through, summed over the documents
RECURSIVE QuotaSum(_, _, _)
QuotaSum(s, docs, quota) ==
    IF docs = {} THEN 0
    ELSE LET f == CHOOSE x \in docs : TRUE
         IN  Min(quota, CountOfFile(s, f)) + QuotaSum(s, docs \ {f}, quota)

\* C24 as stated: the result has min(limit, total number of hits) entries,
\* also after balancing.
C24_LengthIsMinLimitTotal ==
    ReturnedMerged =>
        Len(search_results) = Min(limit, Len(MergedOf(responses)))

\* C24 amended: with at most limit hits all are returned; with more, the
\* result has min(limit, sum over the documents of min(quota, hits of the
\* document)) entries, quota = max(1, limit // d), which can be fewer than
\* limit.
C24_LengthAfterBalancing ==
    ReturnedMerged =>
        LET merged == MergedOf(responses)
            d == Cardinality(DocsOf(merged))
            quota == IF limit \div d >= 1 THEN limit \div d ELSE 1
        IN  /\ Len(search_results) <= limit
            /\ Len(merged) <= limit => Len(search_results) = Len(merged)
            /\ Len(merged) > limit =>
                   Len(search_results) = Min(limit, QuotaSum(merged, DocsOf(merged), quota))

\* C24 witness: limit 3, two documents with two hits each: one hit of each
\* document is returned
C24_Witness ==
    /\ ReturnedMerged
    /\ limit = 3
    /\ Len(MergedOf(responses)) = 4
    /\ Cardinality(DocsOf(MergedOf(responses))) = 2
    /\ Len(search_results) = 2

(***************************************************************************)
(* Properties of delete against the background ingestion (SpecProc).       *)
(***************************************************************************)
\* C25: no point in the store carries a document id for which DELETE
\* /documents/{id} has answered success.
C25_DeletedStaysDeleted ==
    \A p \in points : p.document_id \notin deleted

(***************************************************************************)
(* Properties of the health check of src/app_qdrant_only.py (SpecOnly).    *)
(***************************************************************************)
\* C26: a health check made while the store is reachable succeeds.
C26_HealthReflectsReachability ==
    (last_op.op = "health" /\ last_op.reachable) => last_op.status = 200

====
